---- MODULE Spec2Model ----
(***************************************************************************)
(* Model of django_mako_plus/router.py: the front controller               *)
(* route_request, the factory router_factory and the routers               *)
(* ViewFunctionRouter, ClassBasedRouter, TemplateViewRouter and            *)
(* RegistryExceptionRouter.                                                *)
(*                                                                         *)
(* Python values are modelled as records with a `kind` field.  Collaborators*)
(* whose code is outside router.py (the URL parameter list, the converters,*)
(* the decorators, the template loader, the signal receivers and the view  *)
(* functions themselves) are modelled by their outcome, chosen             *)
(* nondeterministically where the program calls them.                      *)
(***************************************************************************)
EXTENDS Integers, Sequences, FiniteSets, TLC

\* ------------------------------------------------------------------------
\* Bounds of the model

\* the largest number of positional URL values a request carries
MaxUrlParams == 3

\* ------------------------------------------------------------------------
\* Values

\* Python's None
None == [kind |-> "None"]

\* inspect.Parameter.empty: the default of a parameter that declares none
ParameterEmpty == "Parameter.empty"

\* what request.urlparams[i] gives when no URL value was supplied at i
EMPTY == ""

\* the i-th positional URL value of a request (distinct per position)
UrlValue(i) == "u" \o ToString(i)

\* a URL value no converter can convert
BadValue == "bad"

\* the value of the extra keyword `name` (a named group of the url pattern)
KwValue(name) == "k_" \o name

\* what a router's get_response did, up to the call of the view function
Result(raised, called, args, kwargs, response, via) ==
    [raised |-> raised, called |-> called, args |-> args, kwargs |-> kwargs,
     response |-> response, via |-> via]

\* the range of a sequence
Range(s) == {s[i] : i \in 1..Len(s)}

\* ------------------------------------------------------------------------
\* ViewParameter (router.py 247-266)

ViewParameter(name, default, converter) ==
    [name |-> name, default |-> default, converter |-> converter]

\* @view_parameter overrides registered out-of-band on the function:
\* a converter when one was registered for the parameter, else unchanged
view_parameter_update(func, vp) ==
    IF vp.name \in func.view_parameter
    THEN [vp EXCEPT !.converter = "custom"]
    ELSE vp

\* ------------------------------------------------------------------------
\* The view functions and classes a module can hold

\* a formal parameter of a signature: name and default
Param(name, default) == [name |-> name, default |-> default]

\* def f(request)
Sig0 == <<Param("request", ParameterEmpty)>>
\* def f(request, a='da')
Sig1 == <<Param("request", ParameterEmpty), Param("a", "da")>>
\* def f(request, a, b='db'), with @view_parameter('a', converter=...)
Sig2 == <<Param("request", ParameterEmpty), Param("a", ParameterEmpty), Param("b", "db")>>
\* django's View.options(self, request, *args, **kwargs), bound to an instance
SigOptions == <<Param("request", ParameterEmpty), Param("args", ParameterEmpty),
                Param("kwargs", ParameterEmpty)>>

\* a plain function object
Function(name, signature, converters, decorated) ==
    [kind |-> "function", name |-> name, isclass |-> FALSE, isview |-> FALSE,
     signature |-> signature, view_parameter |-> converters,
     decorated |-> decorated]

\* django.views.generic.View: the method names it dispatches on, and the
\* one of them it defines itself
http_method_names ==
    <<"get", "post", "put", "patch", "delete", "head", "options", "trace">>

View == [http_method_names |-> http_method_names, methods |-> {"options"}]

\* a class object; own = the http methods the class defines itself
Class(name, isview, own, decorated) ==
    [kind |-> "class", name |-> name, isclass |-> TRUE, isview |-> isview,
     own |-> own, decorated |-> decorated,
     signature |-> Sig0, view_parameter |-> {}]

\* func(): the instance of a View subclass; getattr(instance, m, None) is a
\* bound method for the methods the class defines or inherits from View
Instance(cls) ==
    [http_method_names |-> View.http_method_names,
     methods |-> cls.own \cup View.methods]

BoundMethod(instance, mthd_name) ==
    IF mthd_name \in instance.methods
    THEN Function(mthd_name,
                  IF mthd_name = "options" THEN SigOptions ELSE Sig1,
                  {}, FALSE)
    ELSE None

\* the attributes a view module may hold under the requested function name
Targets ==
    { Function("f", Sig0, {}, TRUE),
      Function("f", Sig1, {}, TRUE),
      Function("f", Sig2, {"a"}, TRUE),
      Function("f", Sig1, {}, FALSE),
      Class("V", TRUE, {"get", "post"}, FALSE),
      Class("V", TRUE, {"get", "post"}, TRUE),
      Class("V", TRUE, {"post"}, FALSE),
      Class("C", FALSE, {}, FALSE),
      Class("C", FALSE, {}, TRUE) }

\* ------------------------------------------------------------------------
\* Collaborators of ViewFunctionRouter.get_response

\* request.urlparams.check_length(n): "too many URL segments" is a not-found
check_length(urlparams, length) ==
    IF Len(urlparams) > length THEN "Http404" ELSE "none"

\* request.urlparams[i] (i counts from 1 here): '' when nothing was supplied
URLParamList_getitem(urlparams, i) ==
    IF i <= Len(urlparams) THEN urlparams[i] ELSE EMPTY

\* one application of the converter `who` to a value; a value is carried
\* with the list of converters that were applied to it
Converted(who, value, parameter) ==
    IF value.val = BadValue
    THEN [raised |-> "Http404", value |-> value]
    ELSE [raised |-> "none",
          value  |-> [val |-> IF value.val = EMPTY THEN parameter.default
                              ELSE value.val,
                      by  |-> Append(value.by, who)]]

\* parameter.converter(value, parameter, ctask)
parameter_converter(value, parameter) == Converted("parameter", value, parameter)

\* ctask.converter(value, parameter, ctask)
ctask_converter(value, parameter) == Converted("task", value, parameter)

\* a value no converter has touched yet
Raw(v) == [val |-> v, by |-> <<>>]

\* ------------------------------------------------------------------------
\* dict operations on **kwargs (a function from names to values)

DictHas(d, k) == k \in DOMAIN d

\* a pop that leaves the key in the dict
DictKept(d, k) == d

DictWithout(d, k) == [n \in (DOMAIN d) \ {k} |-> d[n]]

\* ------------------------------------------------------------------------
\* ViewFunctionRouter (router.py 155-191)

\* __init__: one ViewParameter per formal parameter after the request
ViewFunctionRouter(mod, func, decorator_kwargs) ==
    [kind |-> "ViewFunctionRouter",
     module |-> mod,
     function |-> func.name,
     decorator_kwargs |-> decorator_kwargs,
     parameters |->
        [i \in 1..(Len(func.signature) - 1) |->
            view_parameter_update(func,
                ViewParameter(func.signature[i + 1].name,
                              func.signature[i + 1].default,
                              "None"))]]

\* line 180 with the two sources swapped: the URL value wins
PopValueUrlFirst(kwargs, name, urlparams, i) ==
    IF i <= Len(urlparams) THEN urlparams[i]
    ELSE IF DictHas(kwargs, name) THEN kwargs[name]
    ELSE EMPTY

\* line 180: kwargs.pop(parameter.name, request.urlparams[i])
PopValue(kwargs, name, urlparams, i) ==
    IF DictHas(kwargs, name) THEN kwargs[name]
    ELSE URLParamList_getitem(urlparams, i)

\* lines 182-185 with the else dropped: both converters run
ConvertBoth(value, parameter) ==
    LET first == IF parameter.converter # "None"
                 THEN parameter_converter(value, parameter)
                 ELSE [raised |-> "none", value |-> value]
    IN IF first.raised # "none" THEN first
       ELSE ctask_converter(first.value, parameter)

\* lines 182-185: the parameter's converter if set, else the task's
Convert(value, parameter) ==
    IF parameter.converter # "None"
    THEN parameter_converter(value, parameter)
    ELSE ctask_converter(value, parameter)

\* lines 179-186: the loop over self.parameters, from index i on
RECURSIVE BuildArgs(_, _, _, _, _)
BuildArgs(self, urlparams, i, args, kwargs) ==
    IF i > Len(self.parameters)
    THEN Result("none", TRUE, args, kwargs, None, "")
    ELSE LET parameter == self.parameters[i]
             value == Raw(PopValue(kwargs, parameter.name, urlparams, i))
             rest  == DictWithout(kwargs, parameter.name)
             conv  == Convert(value, parameter)
         IN IF conv.raised # "none"
            THEN Result(conv.raised, FALSE, args, rest, None, "")
            ELSE BuildArgs(self, urlparams, i + 1,
                           Append(args, conv.value), rest)

\* get_response without line 176
GetResponseUnchecked(self, urlparams, kwargs) ==
    BuildArgs(self, urlparams, 1, <<Raw("request")>>, kwargs)

\* get_response up to the call of self.function(*args, **kwargs):
\* called tells whether the view function is called, and with what
ViewFunctionRouter_get_response(self, urlparams, kwargs) ==
    IF check_length(urlparams, Len(self.parameters)) # "none"
    THEN Result(check_length(urlparams, Len(self.parameters)),
                FALSE, <<>>, kwargs, None, "")
    ELSE BuildArgs(self, urlparams, 1, <<Raw("request")>>, kwargs)

\* ------------------------------------------------------------------------
\* Responses and exceptions

HttpResponse(body) == [kind |-> "HttpResponse", status |-> 200, body |-> body]

\* HttpResponseNotAllowed(permitted_methods)
HttpResponseNotAllowed(permitted_methods) ==
    [kind |-> "HttpResponse", status |-> 405, body |-> permitted_methods]

\* ViewDoesNotExist(message): the message is kept as its formatted pieces
ViewDoesNotExist(message) == [kind |-> "ViewDoesNotExist", args |-> message]

\* ------------------------------------------------------------------------
\* ClassBasedRouter (router.py 194-211, router/router_class.py 10-26)

\* str.upper() and str.lower() on the method names in use
Upper(m) ==
    CASE m = "get" -> "GET" [] m = "post" -> "POST" [] m = "put" -> "PUT"
      [] m = "patch" -> "PATCH" [] m = "delete" -> "DELETE"
      [] m = "head" -> "HEAD" [] m = "options" -> "OPTIONS"
      [] m = "trace" -> "TRACE" [] OTHER -> m

Lower(m) ==
    CASE m = "GET" -> "get" [] m = "POST" -> "post" [] m = "PUT" -> "put"
      [] m = "PATCH" -> "patch" [] m = "DELETE" -> "delete"
      [] m = "HEAD" -> "head" [] m = "OPTIONS" -> "options"
      [] m = "TRACE" -> "trace" [] OTHER -> m

\* lines 198-201: the method names whose attribute is not None
EndpointNames(instance) ==
    {m \in Range(instance.http_method_names) : BoundMethod(instance, m) # None}

\* __init__: endpoints, and keys = the order the dict was filled in
ClassBasedRouter(module, instance, decorator_kwargs) ==
    [kind |-> "ClassBasedRouter",
     endpoints |->
        [m \in EndpointNames(instance) |->
            ViewFunctionRouter(module, BoundMethod(instance, m),
                               decorator_kwargs)],
     keys |-> SelectSeq(instance.http_method_names,
                        LAMBDA m : m \in EndpointNames(instance))]

\* line 208 without the call of upper()
AllowedMethodsAsKeyed(self) == self.keys

\* line 208: [ e.upper() for e in self.endpoints.keys() ]
AllowedMethods(self) == [i \in 1..Len(self.keys) |-> Upper(self.keys[i])]

\* get_response, up to the call of the view function
ClassBasedRouter_get_response(self, method, urlparams, kwargs) ==
    IF Lower(method) \in DOMAIN self.endpoints
    THEN [ViewFunctionRouter_get_response(self.endpoints[Lower(method)],
                                          urlparams, kwargs)
            EXCEPT !.via = Lower(method)]
    ELSE Result("none", FALSE, <<>>, kwargs,
                HttpResponseNotAllowed(AllowedMethods(self)), "")

\* ------------------------------------------------------------------------
\* TemplateViewRouter (router.py 214-228)

TemplateViewRouter(app_name, template_name) ==
    [kind |-> "TemplateViewRouter", app_name |-> app_name,
     template_name |-> template_name]

\* get_response: render the template with the keyword arguments as context
TemplateViewRouter_get_response(self, kwargs) ==
    Result("none", FALSE, <<>>, kwargs, HttpResponse(self.template_name), "")

\* ------------------------------------------------------------------------
\* RegistryExceptionRouter (router.py 231-240)

RegistryExceptionRouter(exc) == [kind |-> "RegistryExceptionRouter", exc |-> exc]

\* get_response: HttpResponseNotFound is not among the names router.py
\* imports (lines 1-7), so evaluating line 237 raises NameError
RegistryExceptionRouter_get_response(self, kwargs) ==
    Result("NameError", FALSE, <<>>, kwargs, None, "")

\* message: str(self.exc)
RegistryExceptionRouter_message(self) == self.exc.args

\* the classes that offer get_response and message
RouterKinds ==
    {"ViewFunctionRouter", "ClassBasedRouter", "TemplateViewRouter",
     "RegistryExceptionRouter"}

\* ------------------------------------------------------------------------
\* router_factory (router.py 113-152)

\* getattr(module, function_name) when the module has no such attribute
Absent == [kind |-> "absent"]

\* what the world answers to one call of router_factory:
\*   find_spec  "found", "None" (no such module), "ValueError", or another
\*              error raised by the lookup (the comment of line 118 names
\*              AttributeError)
\*   template   whether the fallback template can be loaded
\*   import     whether import_module succeeds
\*   target     the attribute of the module, or Absent
Worlds ==
    [find_spec : {"found", "None", "ValueError", "AttributeError"},
     template  : BOOLEAN,
     import    : BOOLEAN,
     target    : Targets \cup {Absent}]

\* a factory outcome: the exception raised or the router returned, and the
\* collaborators called on the way
Built(raised, exc, router, calls) ==
    [raised |-> raised, exc |-> exc, router |-> router, calls |-> calls]

\* line 128 naming only the module
FallbackMessageModuleOnly(module_name, fallback_template) ==
    <<"View module", module_name, "not found">>

\* line 128: the message of the ViewDoesNotExist
FallbackMessage(module_name, fallback_template) ==
    <<"View module", module_name, "not found, and fallback template",
      fallback_template, "could not be loaded", "TemplateDoesNotExist">>

\* line 142 testing only inspect.isclass(func)
IsClassBasedAnyClass(func) == func.isclass

\* line 142: inspect.isclass(func) and issubclass(func, View)
IsClassBased(func) == func.isclass /\ func.isview

\* lines 116-149: the body of the outer try
router_factory_try(app_name, module_name, function_name, fallback_template, world) ==
    IF world.find_spec = "AttributeError"
    THEN Built("AttributeError", None, None, <<"find_spec">>)
    ELSE IF world.find_spec \in {"None", "ValueError"}
    THEN \* lines 123-128
         IF world.template
         THEN Built("none", None,
                    TemplateViewRouter(app_name, fallback_template),
                    <<"find_spec", "get_template">>)
         ELSE Built("ViewDoesNotExist",
                    ViewDoesNotExist(FallbackMessage(module_name, fallback_template)),
                    None, <<"find_spec", "get_template">>)
    ELSE IF ~world.import
    THEN \* line 131
         Built("ImportError", None, None, <<"find_spec", "import_module">>)
    ELSE IF world.target = Absent
    THEN \* lines 132-135
         Built("ViewDoesNotExist",
               ViewDoesNotExist(<<"Module", module_name,
                    "found successfully, but view", function_name,
                    "is not defined in the module.">>),
               None, <<"find_spec", "import_module", "getattr">>)
    ELSE LET func == world.target
             \* lines 138-141
             decorator_kwargs == IF func.decorated THEN "decorator_kwargs"
                                 ELSE "None"
             calls == <<"find_spec", "import_module", "getattr">>
         IN IF IsClassBased(func)
            THEN \* lines 142-143
                 Built("none", None,
                       ClassBasedRouter(module_name, Instance(func), decorator_kwargs),
                       calls)
            ELSE IF ~func.decorated
            THEN \* lines 147-148
                 Built("ViewDoesNotExist",
                       ViewDoesNotExist(<<"View", module_name, function_name,
                            "was found successfully, but it must be decorated">>),
                       None, calls)
            ELSE \* line 149
                 Built("none", None,
                       ViewFunctionRouter(module_name, func, decorator_kwargs),
                       calls)

\* router_factory without the handler of lines 151-152
router_factory_uncaught(app_name, module_name, function_name, fallback_template, world) ==
    router_factory_try(app_name, module_name, function_name, fallback_template, world)

\* router_factory: lines 151-152 turn a ViewDoesNotExist into a router
router_factory(app_name, module_name, function_name, fallback_template, world) ==
    LET r == router_factory_try(app_name, module_name, function_name,
                                fallback_template, world)
    IN IF r.raised = "ViewDoesNotExist"
       THEN Built("none", None, RegistryExceptionRouter(r.exc), r.calls)
       ELSE r

\* ------------------------------------------------------------------------
\* The requests and the environment of route_request

\* the number of receivers connected to each signal
NumReceivers == 2

\* the positional URL values a request may carry
UrlParamChoices ==
    {[i \in 1..n |-> UrlValue(i)] : n \in 0..MaxUrlParams} \cup {<<BadValue>>}

\* the extra keyword arguments a url pattern may add
KwargNames == {"a", "b", "x"}

KwargChoices == {[n \in D |-> KwValue(n)] : D \in SUBSET KwargNames}

\* the view the url pattern matched: app, module, function, and the
\* template tried when the module does not exist
AppName == "app"
ModuleName == "app.views.index"
FunctionName == "process_request"
FallbackTemplate == "index.html"

\* request.method
Methods == {"GET", "DELETE", "OPTIONS"}

\* the (module, function) pairs an InternalRedirectException may name
RedirectTargets ==
    {[redirect_module |-> ModuleName, redirect_function |-> FunctionName],
     [redirect_module |-> "app.views.other", redirect_function |-> "show"]}

\* what a view function does when it is called
ViewOutcomes ==
    {[kind |-> "HttpResponse"], [kind |-> "str"], [kind |-> "None"],
     [kind |-> "RedirectException"], [kind |-> "Exception"]}
    \cup {[kind |-> "InternalRedirectException", ivr |-> t] : t \in RedirectTargets}

\* what the i-th receiver of the pre signal may return
PreReturns(i) == {None, HttpResponse("pre" \o ToString(i))}

\* what the i-th receiver of the post signal may return
PostReturns(i) ==
    {None, HttpResponse("post" \o ToString(i)),
     [kind |-> "str", status |-> 0, body |-> "post" \o ToString(i)]}

\* isinstance(response, (HttpResponse, StreamingHttpResponse))
IsHttpResponse(response) == response.kind = "HttpResponse"

\* an outcome of route_request: still running, returned value, or raised
Pending == [kind |-> "pending", exc |-> "", value |-> None]
Return(value) == [kind |-> "return", exc |-> "", value |-> value]
Raise(exc) == [kind |-> "raise", exc |-> exc, value |-> None]

\* no call of a view function yet
NoCall == Result("none", FALSE, <<>>, <<>>, None, "")

VARIABLES
    pc,                     \* the line route_request is about to execute
    SIGNALS,                \* DMP_OPTIONS['SIGNALS']
    logInfo,                \* log.isEnabledFor(logging.INFO)
    dmp_router_callback,    \* request.dmp_router_callback
    dmp_router_module,      \* request.dmp_router_module
    dmp_router_function,    \* request.dmp_router_function
    dmp_router_class,       \* request.dmp_router_class
    urlparams,              \* request.urlparams
    method,                 \* request.method
    kwargs,                 \* **kwargs of route_request
    response,               \* the local variable response
    ivr,                    \* the InternalRedirectException being handled
    outcome,                \* what route_request returned or raised
    built,                  \* what router_factory did for this request
    call,                   \* the last get_response, up to the view call
    log,                    \* the records written to the log
    trace                   \* counts of the collaborator calls made

vars == <<pc, SIGNALS, logInfo, dmp_router_callback, dmp_router_module,
          dmp_router_function, dmp_router_class, urlparams, method, kwargs,
          response, ivr, outcome, built, call, log, trace>>

request == <<dmp_router_callback, dmp_router_module, dmp_router_function,
             dmp_router_class, urlparams, method>>

config == <<SIGNALS, logInfo, kwargs>>

\* signals, redirects: the InternalRedirectException and RedirectException
\* raised by line 59; pre_rets, post_rets: what Signal.send returned last;
\* handled: the value line 59 assigned to response
NoTrace ==
    [signals |-> 0, imports |-> 0, getattrs |-> 0, pre |-> 0, post |-> 0,
     invoked |-> 0, redirect_hooks |-> 0, iterations |-> 0,
     redirects |-> 0, external_hooks |-> 0, validated |-> 0,
     pre_rets |-> <<>>, post_rets |-> <<>>, handled |-> None]

NotBuilt ==
    [raised |-> "none", calls |-> <<>>, find_spec |-> "n/a", template |-> "n/a",
     import |-> "n/a", target |-> [kind |-> "n/a"], router |-> None]

Init ==
    /\ pc = "middleware"
    /\ SIGNALS \in BOOLEAN
    /\ logInfo \in BOOLEAN
    /\ dmp_router_callback = None
    /\ dmp_router_module = ModuleName
    /\ dmp_router_function = FunctionName
    /\ dmp_router_class = "None"
    /\ urlparams \in UrlParamChoices
    /\ method \in Methods
    /\ kwargs \in KwargChoices
    /\ response = None
    /\ ivr = None
    /\ outcome = Pending
    /\ built = NotBuilt
    /\ call = NoCall
    /\ log = <<>>
    /\ trace = NoTrace

\* ------------------------------------------------------------------------
\* Before route_request: the dispatch context is populated

\* what of the world w a call of router_factory has looked at
Consulted(w, b) ==
    [raised    |-> b.raised,
     calls     |-> b.calls,
     router    |-> b.router,
     find_spec |-> w.find_spec,
     template  |-> IF "get_template" \notin Range(b.calls) THEN "n/a"
                   ELSE IF w.template THEN "loadable" ELSE "missing",
     import    |-> IF "import_module" \notin Range(b.calls) THEN "n/a"
                   ELSE IF w.import THEN "ok" ELSE "ImportError",
     target    |-> IF "getattr" \notin Range(b.calls) THEN [kind |-> "n/a"]
                   ELSE w.target]

\* the request-init middleware resolves the view with router_factory and
\* stores the router on the request
RequestInitMiddleware ==
    /\ pc = "middleware"
    /\ \E w \in Worlds :
         LET b == router_factory(AppName, dmp_router_module, dmp_router_function,
                                 FallbackTemplate, w)
         IN /\ built' = Consulted(w, b)
            /\ IF b.raised # "none"
               THEN /\ outcome' = Raise(b.raised)
                    /\ pc' = "done"
                    /\ UNCHANGED <<dmp_router_callback, dmp_router_class>>
               ELSE /\ dmp_router_callback' = b.router
                    /\ dmp_router_class' =
                          IF b.router.kind = "ClassBasedRouter"
                          THEN w.target.name ELSE "None"
                    /\ pc' = "L36"
                    /\ UNCHANGED outcome
    /\ UNCHANGED <<SIGNALS, logInfo, dmp_router_module, dmp_router_function,
                   urlparams, method, kwargs, response, ivr, call, log, trace>>

\* the middleware is not installed: the request reaches route_request bare
NoMiddleware ==
    /\ pc = "middleware"
    /\ pc' = "L36"
    /\ UNCHANGED <<SIGNALS, logInfo, request, kwargs, response, ivr, outcome,
                   built, call, log, trace>>

\* ------------------------------------------------------------------------
\* route_request (router.py 25-102), one action per statement group

\* obj.message(request) / obj.get_response: only the routers have them
HasRouterMethods(obj) == obj.kind \in RouterKinds

\* the text of callback.message(request)
Message(callback) ==
    IF callback.kind = "RegistryExceptionRouter"
    THEN RegistryExceptionRouter_message(callback)
    ELSE <<callback.kind, dmp_router_module, dmp_router_function>>

finish(o) ==
    /\ outcome' = o
    /\ pc' = "done"

\* the top of the loop without the check of lines 36-37
CheckCallbackSkipped ==
    /\ pc = "L36"
    /\ trace' = [trace EXCEPT !.iterations = @ + 1]
    /\ pc' = "L40"
    /\ UNCHANGED <<config, request, response, ivr, outcome, built, call, log>>

\* lines 32-37: top of the loop, the check that the middleware ran
CheckCallback ==
    /\ pc = "L36"
    /\ trace' = [trace EXCEPT !.iterations = @ + 1]
    /\ IF dmp_router_callback = None
       THEN finish(Raise("ImproperlyConfigured"))
       ELSE pc' = "L40" /\ UNCHANGED outcome
    /\ UNCHANGED <<config, request, response, ivr, built, call, log>>

\* lines 40-41
LogProcessing ==
    /\ pc = "L40"
    /\ log' = IF logInfo
              THEN Append(log, [level |-> "info",
                                msg |-> <<"processing", dmp_router_module,
                                          dmp_router_function>>])
              ELSE log
    /\ pc' = "L44"
    /\ UNCHANGED <<config, request, response, ivr, outcome, built, call, trace>>

\* line 44 letting every callback through
CheckNotFoundSkipped ==
    /\ pc = "L44"
    /\ pc' = "L49"
    /\ UNCHANGED <<config, request, response, ivr, outcome, built, call, log, trace>>

\* lines 44-46: a view that was not found ends the request
CheckNotFound ==
    /\ pc = "L44"
    /\ IF dmp_router_callback.kind \in {"ViewDoesNotExist", "RegistryExceptionRouter"}
       THEN IF HasRouterMethods(dmp_router_callback)
            THEN /\ log' = Append(log, [level |-> "error",
                                        msg |-> Message(dmp_router_callback)])
                 /\ finish(Raise("Http404"))
            ELSE \* an exception object has no method `message`
                 /\ finish(Raise("AttributeError"))
                 /\ UNCHANGED log
       ELSE /\ pc' = "L49"
            /\ UNCHANGED <<outcome, log>>
    /\ UNCHANGED <<config, request, response, ivr, built, call, trace>>

\* the first response among what the receivers returned, or None
\* the last response among what the receivers returned, or None
LastResponse(rets, i) ==
    LET found == {j \in i..Len(rets) : IsHttpResponse(rets[j][2])}
    IN IF found = {} THEN None
       ELSE rets[CHOOSE j \in found : \A k \in found : k <= j][2]

RECURSIVE FirstResponse(_, _)
FirstResponse(rets, i) ==
    IF i > Len(rets) THEN None
    ELSE IF IsHttpResponse(rets[i][2]) THEN rets[i][2]
    ELSE FirstResponse(rets, i + 1)

\* Signal.send: every receiver is called, in the order it was connected;
\* the result is the list of (receiver, returned value)
\* (returns[i]: what the i-th receiver may return)
Sends(returns) ==
    {[i \in 1..NumReceivers |-> <<i, f[i]>>] :
        f \in {g \in [1..NumReceivers -> UNION {returns[i] : i \in 1..NumReceivers}] :
                  \A i \in 1..NumReceivers : g[i] \in returns[i]}}

\* lines 49-52
PreSignal ==
    /\ pc = "L49"
    /\ IF SIGNALS
       THEN \E rets \in Sends([i \in 1..NumReceivers |-> PreReturns(i)]) :
              /\ trace' = [trace EXCEPT !.pre = @ + Len(rets), !.pre_rets = rets]
              /\ IF FirstResponse(rets, 1) # None
                 THEN finish(Return(FirstResponse(rets, 1)))
                 ELSE pc' = "L55" /\ UNCHANGED outcome
       ELSE /\ pc' = "L55"
            /\ UNCHANGED <<outcome, trace>>
    /\ UNCHANGED <<config, request, response, ivr, built, call, log>>

\* lines 55-56
LogCalling ==
    /\ pc = "L55"
    /\ IF logInfo
       THEN IF HasRouterMethods(dmp_router_callback)
            THEN /\ log' = Append(log, [level |-> "info",
                                        msg |-> <<"calling">> \o Message(dmp_router_callback)])
                 /\ pc' = "L59"
                 /\ UNCHANGED outcome
            ELSE /\ finish(Raise("AttributeError"))
                 /\ UNCHANGED log
       ELSE /\ pc' = "L59"
            /\ UNCHANGED <<outcome, log>>
    /\ UNCHANGED <<config, request, response, ivr, built, call, trace>>

\* callback.get_response(request, **kwargs), up to the call of the view
GetResponse(callback) ==
    CASE callback.kind = "ViewFunctionRouter" ->
            ViewFunctionRouter_get_response(callback, urlparams, kwargs)
      [] callback.kind = "ClassBasedRouter" ->
            ClassBasedRouter_get_response(callback, method, urlparams, kwargs)
      [] callback.kind = "TemplateViewRouter" ->
            TemplateViewRouter_get_response(callback, kwargs)
      [] callback.kind = "RegistryExceptionRouter" ->
            RegistryExceptionRouter_get_response(callback, kwargs)

\* the value a view function returns
ViewReturn(o) ==
    IF o.kind = "HttpResponse" THEN HttpResponse("view")
    ELSE IF o.kind = "None" THEN None
    ELSE [kind |-> "str", status |-> 0, body |-> "view"]

\* line 59: the router is invoked; when it calls the view function, the
\* view returns a value or raises
Invoke ==
    /\ pc = "L59"
    /\ IF ~HasRouterMethods(dmp_router_callback)
       THEN /\ finish(Raise("AttributeError"))
            /\ UNCHANGED <<response, ivr, call, trace>>
       ELSE LET r == GetResponse(dmp_router_callback)
                counted(n) == [trace EXCEPT !.invoked = @ + 1, !.signals = @ + n]
                returned(v) == [counted(0) EXCEPT !.handled = v]
            IN /\ call' = r
               /\ IF r.raised # "none"
                  THEN /\ finish(Raise(r.raised))
                       /\ trace' = counted(0)
                       /\ UNCHANGED <<response, ivr>>
                  ELSE IF ~r.called
                  THEN /\ response' = r.response
                       /\ pc' = "L62"
                       /\ trace' = returned(r.response)
                       /\ UNCHANGED <<outcome, ivr>>
                  ELSE \E o \in ViewOutcomes :
                         CASE o.kind \in {"HttpResponse", "str", "None"} ->
                                 /\ response' = ViewReturn(o)
                                 /\ pc' = "L62"
                                 /\ trace' = returned(ViewReturn(o))
                                 /\ UNCHANGED <<outcome, ivr>>
                           [] o.kind = "InternalRedirectException" ->
                                 /\ ivr' = o.ivr
                                 /\ trace' = counted(1)
                                 /\ pc' = "L75"
                                 /\ UNCHANGED <<outcome, response>>
                           [] o.kind = "RedirectException" ->
                                 /\ pc' = "L92"
                                 /\ trace' = [counted(0) EXCEPT !.redirects = @ + 1]
                                 /\ UNCHANGED <<outcome, response, ivr>>
                           [] o.kind = "Exception" ->
                                 /\ finish(Raise("Exception"))
                                 /\ trace' = counted(0)
                                 /\ UNCHANGED <<response, ivr>>
    /\ UNCHANGED <<config, request, built, log>>

\* the last value the receivers returned that is not None, else response
\* the first value other than None, or the response of the router
FirstNotNone(rets, i, resp) ==
    LET found == {j \in i..Len(rets) : rets[j][2] # None}
    IN IF found = {} THEN resp
       ELSE rets[CHOOSE j \in found : \A k \in found : j <= k][2]

RECURSIVE LastNotNone(_, _, _)
LastNotNone(rets, i, resp) ==
    IF i > Len(rets) THEN resp
    ELSE LastNotNone(rets, i + 1, IF rets[i][2] # None THEN rets[i][2] ELSE resp)

\* lines 62-65
PostSignal ==
    /\ pc = "L62"
    /\ IF SIGNALS
       THEN \E rets \in Sends([i \in 1..NumReceivers |-> PostReturns(i)]) :
              /\ trace' = [trace EXCEPT !.post = @ + Len(rets), !.post_rets = rets]
              /\ response' = LastNotNone(rets, 1, response)
       ELSE UNCHANGED <<response, trace>>
    /\ pc' = "L68"
    /\ UNCHANGED <<config, request, ivr, outcome, built, call, log>>

\* line 73 without the check of lines 68-70
ValidateUnchecked ==
    /\ pc = "L68"
    /\ trace' = [trace EXCEPT !.validated = @ + 1]
    /\ finish(Return(response))
    /\ UNCHANGED <<config, request, response, ivr, built, call, log>>

\* lines 68-73
Validate ==
    /\ pc = "L68"
    /\ trace' = [trace EXCEPT !.validated = @ + 1]
    /\ IF ~IsHttpResponse(response)
       THEN /\ log' = Append(log, [level |-> "error",
                                   msg |-> Message(dmp_router_callback)
                                           \o <<"failed to return an HttpResponse">>])
            /\ finish(Raise("Http404"))
       ELSE /\ finish(Return(response))
            /\ UNCHANGED log
    /\ UNCHANGED <<config, request, response, ivr, built, call>>

\* lines 75-81 without lines 80-81: the dispatch context keeps its target
InternalRedirectStale ==
    /\ pc = "L80"
    /\ pc' = "L82"
    /\ UNCHANGED <<config, request, response, ivr, outcome, built, call, log, trace>>

\* the signal sent after the dispatch context was retargeted
InternalRedirectSignalLate ==
    /\ pc = "L75"
    /\ trace' = [trace EXCEPT !.redirect_hooks =
                                  IF SIGNALS THEN @ + NumReceivers ELSE @]
    /\ dmp_router_module' = ivr.redirect_module
    /\ dmp_router_function' = ivr.redirect_function
    /\ pc' = "L80"
    /\ UNCHANGED <<config, dmp_router_callback, dmp_router_class, urlparams,
                   method, response, ivr, outcome, built, call, log>>

\* lines 75-78: the internal redirect is caught and its signal is sent
InternalRedirectSignal ==
    /\ pc = "L75"
    /\ trace' = [trace EXCEPT !.redirect_hooks =
                                  IF SIGNALS THEN @ + NumReceivers ELSE @]
    /\ pc' = "L80"
    /\ UNCHANGED <<config, request, response, ivr, outcome, built, call, log>>

\* lines 80-81: the dispatch context is retargeted
InternalRedirect ==
    /\ pc = "L80"
    /\ UNCHANGED trace
    /\ dmp_router_module' = ivr.redirect_module
    /\ dmp_router_function' = ivr.redirect_function
    /\ pc' = "L82"
    /\ UNCHANGED <<config, dmp_router_callback, dmp_router_class, urlparams,
                   method, response, ivr, outcome, built, call, log>>

\* lines 82-88: what request.dmp_router_callback becomes, given whether
\* the import succeeds and what the module holds under the function name
Resolved(import, target) ==
    IF ~import
    THEN ViewDoesNotExist(<<"view", dmp_router_module, dmp_router_function,
                            "not found during internal redirect.">>)
    ELSE IF target = Absent
    THEN ViewDoesNotExist(<<"module", dmp_router_module,
                "found successfully during internal redirect, but view function",
                dmp_router_function, "is not defined in the module.">>)
    ELSE target

\* lines 82-90: the new target is imported and looked up, then the loop
\* starts over
Resolve ==
    /\ pc = "L82"
    /\ \E import \in BOOLEAN, target \in Targets \cup {Absent} :
         \* a module that fails to import holds nothing to look up
         /\ import \/ target = Absent
         /\ dmp_router_callback' = Resolved(import, target)
         /\ trace' = [trace EXCEPT !.imports = @ + 1,
                                   !.getattrs = IF import THEN @ + 1 ELSE @]
    /\ log' = Append(log, [level |-> "info",
                           msg |-> <<"received an InternalViewRedirect to",
                                     dmp_router_module, dmp_router_function>>])
    /\ pc' = "L36"
    /\ UNCHANGED <<config, dmp_router_module, dmp_router_function,
                   dmp_router_class, urlparams, method, response, ivr, outcome,
                   built, call>>

\* e.get_response(request): the redirect's own response
HttpResponseRedirect == [kind |-> "HttpResponse", status |-> 302, body |-> "redirect_to"]

\* the browser is sent the redirect, then the post signal is sent
ExternalRedirectFallsThrough ==
    /\ pc = "L92"
    /\ log' = IF dmp_router_class = "None"
              THEN Append(log, [level |-> "error",
                                msg |-> Message(dmp_router_callback)
                                        \o <<"redirected processing">>])
              ELSE log
    /\ trace' = [trace EXCEPT !.external_hooks =
                                  IF SIGNALS THEN @ + NumReceivers ELSE @]
    /\ response' = HttpResponseRedirect
    /\ pc' = "L62"
    /\ UNCHANGED <<config, request, ivr, outcome, built, call>>

\* lines 92-99: the browser is sent the redirect
ExternalRedirect ==
    /\ pc = "L92"
    /\ log' = IF dmp_router_class = "None"
              THEN Append(log, [level |-> "error",
                                msg |-> Message(dmp_router_callback)
                                        \o <<"redirected processing">>])
              ELSE log
    /\ trace' = [trace EXCEPT !.external_hooks =
                                  IF SIGNALS THEN @ + NumReceivers ELSE @]
    /\ finish(Return(HttpResponseRedirect))
    /\ UNCHANGED <<config, request, response, ivr, built, call>>

\* lines 239-240 called by a holder of the router that router_factory
\* built, outside route_request
DirectGetResponse ==
    /\ pc = "L36"
    /\ trace.iterations = 0
    /\ dmp_router_callback.kind = "RegistryExceptionRouter"
    /\ LET r == RegistryExceptionRouter_get_response(dmp_router_callback, kwargs)
       IN /\ call' = r
          /\ finish(IF r.raised # "none" THEN Raise(r.raised) ELSE Return(r.response))
    /\ UNCHANGED <<config, request, response, ivr, built, log, trace>>

Next ==
    \/ RequestInitMiddleware
    \/ NoMiddleware
    \/ CheckCallback
    \/ LogProcessing
    \/ CheckNotFound
    \/ PreSignal
    \/ LogCalling
    \/ Invoke
    \/ PostSignal
    \/ Validate
    \/ InternalRedirectSignal
    \/ InternalRedirect
    \/ Resolve
    \/ ExternalRedirect
    \/ DirectGetResponse

Spec == Init /\ [][Next]_vars

\* ------------------------------------------------------------------------
\* Properties of the dispatch loop

\* the lines of an iteration from the top of the loop to the invocation
BeforeInvoke == {"L36", "L40", "L44", "L49", "L55", "L59"}

\* control is inside the handler of InternalRedirectException
InRedirectHandler == pc \in {"L75", "L80", "L82"}

\* the callback is the ViewDoesNotExist of a failed import (line 88)
ImportFailed ==
    /\ dmp_router_callback.kind = "ViewDoesNotExist"
    /\ dmp_router_callback.args[1] = "view"

\* the callback is a ViewDoesNotExist made by the redirect handler
RedirectFailed == dmp_router_callback.kind = "ViewDoesNotExist"

\* the dispatch context names the target of the last internal redirect
Retargeted ==
    /\ dmp_router_module = ivr.redirect_module
    /\ dmp_router_function = ivr.redirect_function

\* C1 as stated: every internal-redirect signal raised by the invocation
\* causes one import and one attribute lookup, none happens without a
\* signal, and the dispatch context names the signal's target before the
\* resolver is next invoked.
C1_ImportAndLookupPerSignal ==
    /\ trace.imports <= trace.signals
    /\ trace.getattrs <= trace.signals
    /\ ~InRedirectHandler =>
          /\ trace.imports = trace.signals
          /\ trace.getattrs = trace.signals
    /\ (trace.signals > 0 /\ pc \in BeforeInvoke) => Retargeted

\* C1 amended: every internal-redirect signal causes one import attempt,
\* followed by one attribute lookup only when the import succeeds; no
\* import or lookup happens without a signal; the dispatch context names
\* the signal's target before the resolver is next invoked.
C1_OneResolutionPerSignal ==
    /\ trace.imports <= trace.signals
    /\ trace.getattrs <= trace.imports
    /\ ~InRedirectHandler =>
          /\ trace.imports = trace.signals
          /\ trace.getattrs = trace.imports - (IF ImportFailed THEN 1 ELSE 0)
    /\ (trace.signals > 0 /\ pc \in BeforeInvoke) => Retargeted

\* an internal redirect to another view was resolved and the loop is
\* about to invoke the callback again
C1_Witness ==
    /\ pc = "L59"
    /\ trace.signals = 1
    /\ trace.imports = 1
    /\ trace.getattrs = 1
    /\ dmp_router_module = "app.views.other"
    /\ dmp_router_function = "show"

\* C2 as stated: after an internal redirect whose module cannot be
\* imported or whose function is not in the module, the request ends on
\* the next iteration with a not-found outcome and the diagnostic logged,
\* without hooks or an invocation in that iteration, and with no other
\* kind of failure.
C2_FailedRedirectIsNotFound ==
    (pc = "done" /\ trace.signals > 0 /\ RedirectFailed) =>
        /\ outcome = Raise("Http404")
        /\ log # <<>>
        /\ log[Len(log)] = [level |-> "error", msg |-> dmp_router_callback.args]
        /\ trace.invoked = trace.signals
        /\ trace.iterations = trace.signals + 1

\* C3 as stated: after an internal redirect whose module imports and
\* whose function exists, the cached callback is a router; and wherever
\* route_request calls get_response or message, the callback is a router.
C3_CallbackIsRouter ==
    /\ (trace.signals > 0 /\ ~InRedirectHandler /\ ~RedirectFailed) =>
          HasRouterMethods(dmp_router_callback)
    /\ pc = "L59" => HasRouterMethods(dmp_router_callback)
    /\ (pc = "L55" /\ logInfo) => HasRouterMethods(dmp_router_callback)
    /\ (pc = "L44" /\ dmp_router_callback.kind
                        \in {"ViewDoesNotExist", "RegistryExceptionRouter"}) =>
          HasRouterMethods(dmp_router_callback)

\* ------------------------------------------------------------------------
\* Properties of ViewFunctionRouter.get_response

\* the callback is still the router the middleware stored
FirstCallback == trace.imports = 0 /\ pc # "L82"

\* line 59 ran ViewFunctionRouter.get_response, directly or through the
\* endpoint of a ClassBasedRouter
FunctionInvoked ==
    /\ trace.invoked > 0
    /\ FirstCallback
    /\ \/ dmp_router_callback.kind = "ViewFunctionRouter"
       \/ /\ dmp_router_callback.kind = "ClassBasedRouter"
          /\ Lower(method) \in DOMAIN dmp_router_callback.endpoints

\* the ViewFunctionRouter that ran
InvokedRouter ==
    IF dmp_router_callback.kind = "ClassBasedRouter"
    THEN dmp_router_callback.endpoints[Lower(method)]
    ELSE dmp_router_callback

\* the declared default of the i-th parameter
DefaultOf(i) == InvokedRouter.parameters[i].default

NameOf(i) == InvokedRouter.parameters[i].name

\* the view function was called
ViewCalled == FunctionInvoked /\ call.called

\* C4 as stated: the value converted for parameter i is the URL value at i
\* when one was supplied, else the same-named extra keyword, else the
\* declared default; with both present the URL value is used.
C4_UrlValueFirst ==
    ViewCalled =>
        \A i \in 1..Len(InvokedRouter.parameters) :
            call.args[i + 1].val =
                IF i <= Len(urlparams) THEN urlparams[i]
                ELSE IF NameOf(i) \in DOMAIN kwargs THEN kwargs[NameOf(i)]
                ELSE DefaultOf(i)

\* C4 amended: the value converted for parameter i is the same-named extra
\* keyword when there is one, else the URL value at i when one was
\* supplied, else the declared default; with both present the keyword is
\* used.
C4_KeywordFirst ==
    ViewCalled =>
        \A i \in 1..Len(InvokedRouter.parameters) :
            call.args[i + 1].val =
                IF NameOf(i) \in DOMAIN kwargs THEN kwargs[NameOf(i)]
                ELSE IF i <= Len(urlparams) THEN urlparams[i]
                ELSE DefaultOf(i)

\* a view was called for a parameter that has both a URL value and a
\* same-named keyword
C4_Witness ==
    /\ ViewCalled
    /\ \E i \in 1..Len(InvokedRouter.parameters) :
          /\ i <= Len(urlparams)
          /\ NameOf(i) \in DOMAIN kwargs
          /\ call.args[i + 1].val = kwargs[NameOf(i)]

\* C5: with more positional URL values than declared parameters,
\* get_response ends not-found before any conversion and before the view
\* function is called, and in no other error.
C5_TooManyUrlValues ==
    (FunctionInvoked /\ Len(urlparams) > Len(InvokedRouter.parameters)) =>
        /\ ~call.called
        /\ call.args = <<>>
        /\ call.raised = "Http404"
        /\ pc = "done"
        /\ outcome = Raise("Http404")

\* a router with one declared parameter was invoked with two URL values
C5_Witness ==
    /\ FunctionInvoked
    /\ Len(InvokedRouter.parameters) = 1
    /\ Len(urlparams) = 2
    /\ outcome = Raise("Http404")

\* the converter line 182-185 selects for the i-th parameter
ConverterOf(i) ==
    IF InvokedRouter.parameters[i].converter # "None" THEN "parameter" ELSE "task"

\* C6 as stated: with N <= P URL values the view is called with the
\* request and exactly P converted arguments in declaration order, every
\* parameter beyond the N-th receives its declared default, and exactly
\* one converter (the parameter's own if set, else the task's) is applied
\* to each value.
C6_DefaultsBeyondUrlValues ==
    ViewCalled =>
        /\ Len(call.args) = Len(InvokedRouter.parameters) + 1
        /\ call.args[1] = Raw("request")
        /\ \A i \in 1..Len(InvokedRouter.parameters) :
              /\ call.args[i + 1].by = <<ConverterOf(i)>>
              /\ i > Len(urlparams) => call.args[i + 1].val = DefaultOf(i)

\* C6 amended: as C6, except that a parameter beyond the N-th receives its
\* declared default only when no same-named extra keyword exists; a
\* parameter with a same-named extra keyword receives that keyword's value.
C6_DefaultsUnlessKeyword ==
    ViewCalled =>
        /\ Len(call.args) = Len(InvokedRouter.parameters) + 1
        /\ call.args[1] = Raw("request")
        /\ \A i \in 1..Len(InvokedRouter.parameters) :
              /\ call.args[i + 1].by = <<ConverterOf(i)>>
              /\ (i > Len(urlparams) /\ NameOf(i) \notin DOMAIN kwargs) =>
                    call.args[i + 1].val = DefaultOf(i)
              /\ NameOf(i) \in DOMAIN kwargs =>
                    call.args[i + 1].val = kwargs[NameOf(i)]
              /\ (i <= Len(urlparams) /\ NameOf(i) \notin DOMAIN kwargs) =>
                    call.args[i + 1].val = urlparams[i]

\* a view with two parameters, the first with its own converter, was
\* called with one URL value: the second parameter got its default
C6_Witness ==
    /\ ViewCalled
    /\ Len(InvokedRouter.parameters) = 2
    /\ Len(urlparams) = 1
    /\ ConverterOf(1) = "parameter"
    /\ ConverterOf(2) = "task"
    /\ NameOf(2) \notin DOMAIN kwargs
    /\ call.args[3] = [val |-> DefaultOf(2), by |-> <<"task">>]

\* ------------------------------------------------------------------------
\* Properties of ClassBasedRouter

\* line 59 ran the get_response of the ClassBasedRouter of the middleware
ClassInvoked ==
    /\ trace.invoked > 0
    /\ FirstCallback
    /\ dmp_router_callback.kind = "ClassBasedRouter"

\* the http methods the handler class defines itself
OwnMethods == built.target.own

\* the http methods the instance supports: its own and those of View
SupportedMethods == OwnMethods \cup View.methods

\* the answer was 405 with the list `allowed`
NotAllowed(allowed) ==
    /\ ~call.called
    /\ call.via = ""
    /\ call.response = HttpResponseNotAllowed(allowed)

\* C7 as stated: a class that defines get and post has sub-resolvers for
\* exactly get and post, GET is delegated to the get sub-resolver, DELETE
\* is answered 405 with the list {GET, POST}; the 405 list is the
\* upper-cased supported methods, and 405 is returned exactly when the
\* lower-cased request method has no sub-resolver.
C7_ExactlyGetAndPost ==
    /\ (FirstCallback /\ dmp_router_callback.kind = "ClassBasedRouter"
          /\ OwnMethods = {"get", "post"}) =>
            DOMAIN dmp_router_callback.endpoints = {"get", "post"}
    /\ (ClassInvoked /\ OwnMethods = {"get", "post"} /\ method = "GET") =>
            call.via = "get"
    /\ (ClassInvoked /\ OwnMethods = {"get", "post"} /\ method = "DELETE") =>
            /\ call.response.status = 405
            /\ Range(call.response.body) = {"GET", "POST"}
    /\ ClassInvoked =>
            (call.via = "" <=>
                Lower(method) \notin DOMAIN dmp_router_callback.endpoints)

\* C7 amended: the sub-resolvers are those of the methods the class
\* defines and of `options`, which every View subclass inherits; GET is
\* delegated to the get sub-resolver, DELETE is answered 405 with the list
\* GET, POST, OPTIONS; the 405 list is the upper-cased names of the
\* sub-resolvers in http_method_names order, and 405 is returned exactly
\* when the lower-cased request method has no sub-resolver.
C7_OwnAndInheritedMethods ==
    /\ (FirstCallback /\ dmp_router_callback.kind = "ClassBasedRouter") =>
            DOMAIN dmp_router_callback.endpoints = SupportedMethods
    /\ (ClassInvoked /\ "get" \in OwnMethods /\ method = "GET") =>
            /\ call.via = "get"
            /\ call.response = None
    /\ (ClassInvoked /\ OwnMethods = {"get", "post"} /\ method = "DELETE") =>
            NotAllowed(<<"GET", "POST", "OPTIONS">>)
    /\ ClassInvoked =>
            IF Lower(method) \in SupportedMethods
            THEN call.via = Lower(method)
            ELSE /\ NotAllowed(call.response.body)
                 /\ Range(call.response.body) = {Upper(m) : m \in SupportedMethods}
                 /\ Len(call.response.body) = Cardinality(SupportedMethods)

\* a DELETE request reached a class that defines get and post
C7_Witness ==
    /\ ClassInvoked
    /\ OwnMethods = {"get", "post"}
    /\ method = "DELETE"
    /\ call.response.status = 405

\* ------------------------------------------------------------------------
\* Properties of router_factory

\* router_factory was called for this request
FactoryCalled == built.calls # <<>>

Called(name) == name \in Range(built.calls)

\* C8 as stated: router_factory never raises; whatever the lookup, the
\* import, the attribute, the kind of target and the fallback template do,
\* it returns a router, every failure being a RegistryExceptionRouter.
C8_NeverRaises ==
    FactoryCalled =>
        /\ built.raised = "none"
        /\ built.router.kind \in RouterKinds

\* C8 amended: router_factory raises exactly when the lookup fails with an
\* error other than ValueError or the import of the located module fails;
\* in every other case it returns a router, and a missing template, a
\* missing attribute and an undecorated target that is no handler class
\* are each returned as a RegistryExceptionRouter.
C8_RaisesOnlyImportErrors ==
    FactoryCalled =>
        /\ built.raised # "none" <=>
              (built.find_spec = "AttributeError" \/ built.import = "ImportError")
        /\ built.raised = "none" => built.router.kind \in RouterKinds
        /\ built.raised = "AttributeError" => built.find_spec = "AttributeError"
        /\ built.raised = "ImportError" => built.import = "ImportError"
        /\ built.raised \in {"none", "AttributeError", "ImportError"}
        /\ built.template = "missing" =>
              built.router.kind = "RegistryExceptionRouter"
        /\ (built.import = "ok" /\ built.target = Absent) =>
              built.router.kind = "RegistryExceptionRouter"
        /\ (built.import = "ok" /\ built.target # Absent) =>
              ((~IsClassBased(built.target) /\ ~built.target.decorated) =>
                  built.router.kind = "RegistryExceptionRouter")

\* a failure was returned as a RegistryExceptionRouter
C8_Witness ==
    /\ FactoryCalled
    /\ built.raised = "none"
    /\ built.import = "ok"
    /\ built.target = Absent
    /\ built.router.kind = "RegistryExceptionRouter"

\* C9: when the module cannot be located, router_factory returns a
\* TemplateViewRouter for the fallback template if it can be loaded, else
\* a RegistryExceptionRouter whose message names the module and the
\* fallback template; the module is not imported.
C9_FallbackTemplate ==
    (FactoryCalled /\ built.find_spec \in {"None", "ValueError"}) =>
        /\ ~Called("import_module")
        /\ built.raised = "none"
        /\ built.template \in {"loadable", "missing"}
        /\ built.template = "loadable" =>
              built.router = TemplateViewRouter(AppName, FallbackTemplate)
        /\ built.template = "missing" =>
              /\ built.router.kind = "RegistryExceptionRouter"
              /\ ModuleName \in Range(RegistryExceptionRouter_message(built.router))
              /\ FallbackTemplate \in Range(RegistryExceptionRouter_message(built.router))

\* neither the module nor the fallback template exists
C9_Witness ==
    /\ FactoryCalled
    /\ built.find_spec = "None"
    /\ built.template = "missing"
    /\ built.router.kind = "RegistryExceptionRouter"

\* the kind of router lines 132-149 are to return for an attribute
ExpectedKind(target) ==
    IF target = Absent THEN "RegistryExceptionRouter"
    ELSE IF target.isclass /\ target.isview THEN "ClassBasedRouter"
    ELSE IF ~target.decorated THEN "RegistryExceptionRouter"
    ELSE "ViewFunctionRouter"

LoggedError(what) ==
    /\ log # <<>>
    /\ log[Len(log)].level = "error"
    /\ LET msg == log[Len(log)].msg IN msg # <<>> /\ msg[Len(msg)] = what

\* C11: whatever route_request returns is an HttpResponse; when the value
\* left after the post signal is no HttpResponse, lines 68-70 log an error
\* and the request ends with Http404, and that value is not returned.
C11_ReturnsOnlyResponses ==
    /\ outcome.kind = "return" => IsHttpResponse(outcome.value)
    /\ (trace.validated > 0 /\ ~IsHttpResponse(response)) =>
          /\ outcome = Raise("Http404")
          /\ LoggedError("failed to return an HttpResponse")
    /\ (trace.validated > 0 /\ IsHttpResponse(response)) =>
          outcome = Return(response)

\* a receiver of the post signal replaced the response by a string
C11_Witness ==
    /\ trace.validated > 0
    /\ response.kind = "str"
    /\ IsHttpResponse(trace.handled)
    /\ outcome = Raise("Http404")

\* RegistryExceptionRouter.get_response was called
DirectlyCalled ==
    /\ call # NoCall
    /\ dmp_router_callback.kind = "RegistryExceptionRouter"

\* C12: RegistryExceptionRouter.get_response, whenever it is called,
\* returns a not-found response (status 404) whose body is the message of
\* the exception it holds, and ends no other way.
C12_GetResponseIsNotFound ==
    DirectlyCalled =>
        /\ call.raised = "none"
        /\ outcome.kind = "return"
        /\ outcome.value.status = 404
        /\ outcome.value.body = RegistryExceptionRouter_message(dmp_router_callback)

\* route_request was entered on a request the middleware never prepared
EnteredUnprepared == dmp_router_callback = None /\ trace.iterations > 0

\* C13: route_request entered with no request.dmp_router_callback raises
\* ImproperlyConfigured, which the loop neither catches nor turns into a
\* response, before anything is logged, any signal is sent or any router
\* is invoked.
C13_UnpreparedIsConfigurationError ==
    /\ dmp_router_callback = None => pc \in {"middleware", "L36", "done"}
    /\ EnteredUnprepared =>
          /\ pc = "done"
          /\ outcome = Raise("ImproperlyConfigured")
          /\ log = <<>>
          /\ trace.pre = 0 /\ trace.post = 0 /\ trace.invoked = 0
          /\ trace.redirect_hooks = 0 /\ trace.external_hooks = 0
          /\ trace.iterations = 1

C13_Witness ==
    /\ EnteredUnprepared
    /\ outcome = Raise("ImproperlyConfigured")
    /\ SIGNALS
    /\ logInfo

\* an iteration of the loop started with a RegistryExceptionRouter cached
NotFoundIteration ==
    /\ dmp_router_callback.kind = "RegistryExceptionRouter"
    /\ trace.iterations > 0

\* C14: an iteration that starts with a RegistryExceptionRouter cached
\* logs the router's message as an error and ends with Http404; no pre
\* signal, no get_response and no post signal happen in it.
C14_ErrorRouterIsNotFound ==
    /\ dmp_router_callback.kind = "RegistryExceptionRouter" =>
          pc \in {"L36", "L40", "L44", "done"}
    /\ NotFoundIteration =>
          /\ trace.pre = 0 /\ trace.post = 0 /\ trace.invoked = 0
          /\ call = NoCall
          /\ pc = "done" =>
                /\ outcome = Raise("Http404")
                /\ log # <<>>
                /\ log[Len(log)] =
                      [level |-> "error",
                       msg |-> RegistryExceptionRouter_message(dmp_router_callback)]

C14_Witness ==
    /\ NotFoundIteration
    /\ pc = "done"
    /\ SIGNALS
    /\ outcome = Raise("Http404")

\* ------------------------------------------------------------------------
\* The signals around the call of the router

\* Signal.send called every receiver once, in the order of connection
InOrder(rets) ==
    /\ Len(rets) = NumReceivers
    /\ \A i \in 1..NumReceivers : rets[i][1] = i

\* the receivers of the last pre signal that returned a response
PreResponders ==
    {i \in 1..Len(trace.pre_rets) : IsHttpResponse(trace.pre_rets[i][2])}

PostRan == pc = "L68" \/ trace.validated > 0

\* the receivers of the post signal that returned something else than None
PostSpeakers ==
    {i \in 1..Len(trace.post_rets) : trace.post_rets[i][2] # None}

\* C16: with SIGNALS on, every receiver of the post signal is called in
\* the order of connection and the response carried on is the value of the
\* last receiver that returned something else than None, or the value the
\* router returned when there is none; with SIGNALS off the value the
\* router returned is carried on unchanged.
C16_PostSignalLastWins ==
    PostRan =>
        IF SIGNALS
        THEN /\ InOrder(trace.post_rets)
             /\ trace.post = NumReceivers
             /\ IF PostSpeakers = {}
                THEN response = trace.handled
                ELSE \E i \in PostSpeakers :
                        /\ \A j \in PostSpeakers : j <= i
                        /\ response = trace.post_rets[i][2]
        ELSE /\ trace.post = 0
             /\ trace.post_rets = <<>>
             /\ response = trace.handled

\* two receivers returned different values, the later one is carried on
C16_Witness ==
    /\ SIGNALS
    /\ PostRan
    /\ {1, NumReceivers} \subseteq PostSpeakers
    /\ trace.post_rets[1][2] # trace.post_rets[NumReceivers][2]
    /\ response = trace.post_rets[NumReceivers][2]
    /\ response # trace.handled

\* C17: when line 59 raises RedirectException, the receivers of the
\* redirect signal are called (with SIGNALS on) and route_request returns
\* the redirect's own response in the same iteration; the post signal is
\* not sent and lines 68-70 do not run.
C17_ExternalRedirectReturns ==
    trace.redirects > 0 =>
        /\ pc \in {"L92", "done"}
        /\ trace.post = 0
        /\ trace.validated = 0
        /\ trace.invoked = trace.iterations
        /\ pc = "L92" => trace.external_hooks = 0 /\ outcome = Pending
        /\ pc = "done" =>
              /\ outcome = Return(HttpResponseRedirect)
              /\ trace.external_hooks = IF SIGNALS THEN NumReceivers ELSE 0

C17_Witness ==
    /\ trace.redirects > 0
    /\ pc = "done"
    /\ SIGNALS
    /\ trace.external_hooks = NumReceivers
    /\ outcome = Return(HttpResponseRedirect)

\* ------------------------------------------------------------------------
\* The iterations of the loop

\* every call of line 59 so far raised an InternalRedirectException naming
\* the view of the request itself, and the module holds a view function
\* under that name
SelfRedirecting ==
    /\ trace.signals > 0
    /\ trace.invoked = trace.signals
    /\ ivr = [redirect_module |-> ModuleName, redirect_function |-> FunctionName]
    /\ ~InRedirectHandler
    /\ dmp_router_callback.kind = "function"
    /\ dmp_router_callback.decorated

\* C18: an iteration after the first starts only after an
\* InternalRedirectException, and while the view keeps raising an
\* internal redirect to itself route_request goes on looping: it neither
\* returns nor raises.
C18_SelfRedirectLoopsForever ==
    /\ trace.iterations <= trace.signals + 1
    /\ (SelfRedirecting /\ PreResponders = {}) => outcome = Pending

\* the first iteration's dispatch context
FirstContext ==
    /\ dmp_router_module = ModuleName
    /\ dmp_router_function = FunctionName

DeclaredNames == {NameOf(i) : i \in 1..Len(InvokedRouter.parameters)}

\* C20: the keyword arguments ViewFunctionRouter.get_response passes to
\* the view function are exactly the entries of **kwargs whose names are
\* no declared parameter, each with its value unchanged.
C20_LeftoverKwargs ==
    ViewCalled =>
        /\ DOMAIN call.kwargs = (DOMAIN kwargs) \ DeclaredNames
        /\ \A n \in DOMAIN call.kwargs : call.kwargs[n] = kwargs[n]

\* a declared name and an undeclared one were both among **kwargs
C20_Witness ==
    /\ ViewCalled
    /\ "x" \in DOMAIN call.kwargs
    /\ (DOMAIN kwargs) \cap DeclaredNames # {}
    /\ DOMAIN call.kwargs # DOMAIN kwargs

====
